---------------------------- MODULE Spec2Model ----------------------------
(***************************************************************************)
(* Regression objectives of LightGBM (src/objective/regression_objective   *)
(* .hpp): RegressionL2loss, RegressionL1loss, RegressionHuberLoss and      *)
(* RegressionFairLoss.  Each object is constructed from an ObjectiveConfig,*)
(* bound to the metadata by Init, and then asked for the gradients and     *)
(* hessians of its loss by GetGradients.                                   *)
(*                                                                         *)
(* Numbers.  score is double, label_ and weights_ are float, the outputs   *)
(* are score_t (float).  Both formats are modelled as binary floating      *)
(* point with round-to-nearest-even, gradual underflow, overflow to an     *)
(* infinity and a NaN, with scaled-down widths: a number is the integer    *)
(* count of the smallest double step, 1.0 is the integer One.  The sign of *)
(* a zero is not modelled.                                                 *)
(***************************************************************************)
EXTENDS Integers, Sequences, FiniteSets

(***************************************************************************)
(* The two floating point formats.                                         *)
(***************************************************************************)
\* significand bits of double (53 in the build, scaled down)
DoubleDigits == 8
\* significand bits of float and score_t (24 in the build, scaled down)
FloatDigits == 3
\* the integer that stands for 1.0: doubles below 1.0 are spaced 1/One apart
One == 128
\* the smallest positive float, in double steps
FloatQuantum == 16
\* the largest finite double (2040.0) and the largest finite float (7.0)
DoubleMax == 255 * 1024
FloatMax == 7 * One

PosInf == 4 * DoubleMax
NegInf == 0 - PosInf
NaN == 8 * DoubleMax

IsNaN(x) == x = NaN
IsFinite(x) == x > NegInf /\ x < PosInf
Magnitude(n) == IF n < 0 THEN 0 - n ELSE n
Sign(n) == IF n > 0 THEN 1 ELSE IF n < 0 THEN 0 - 1 ELSE 0

\* the spacing of the format's values around a / den: the least s, a power of
\* two times the quantum q, with a / den < s * 2^p
RECURSIVE Spacing(_, _, _, _)
Spacing(a, den, p, s) ==
  IF a < s * (2 ^ p) * den THEN s ELSE Spacing(a, den, p, 2 * s)

\* num / den rounded to the nearest value with p significand bits and quantum
\* q, ties to the even significand; beyond max the result is an infinity
RoundRat(num, den, p, q, max) ==
  IF num = 0 THEN 0
  ELSE LET a == Magnitude(num)
           s == Spacing(a, den, p, q)
           n == a \div (den * s)
           rem == a - n * den * s
           up == 2 * rem > den * s \/ (2 * rem = den * s /\ n % 2 = 1)
           r == (IF up THEN n + 1 ELSE n) * s
           v == IF r > max THEN PosInf ELSE r
       IN IF num < 0 THEN 0 - v ELSE v

\* num / den rounded up to the next value of the format
RoundRatUp(num, den, p, q, max) ==
  IF num <= 0 THEN 0
  ELSE LET s == Spacing(num, den, p, q)
           n == num \div (den * s)
           r == (IF n * den * s < num THEN n + 1 ELSE n) * s
       IN IF r > max THEN PosInf ELSE r

RoundD(num, den) == RoundRat(num, den, DoubleDigits, 1, DoubleMax)
RoundF(num, den) == RoundRat(num, den, FloatDigits, FloatQuantum, FloatMax)

\* the values of the two formats
IsDouble(x) == x \in {NaN, PosInf, NegInf} \/ (IsFinite(x) /\ RoundD(x, 1) = x)
IsFloat(x) == x \in {NaN, PosInf, NegInf} \/ (IsFinite(x) /\ RoundF(x, 1) = x)

Neg(a) == IF IsNaN(a) THEN NaN ELSE 0 - a
Fabs(a) == IF IsNaN(a) THEN NaN ELSE Magnitude(a)

\* num / den rounded to the format f
RoundTo(f, num, den) ==
  IF f = "float" THEN RoundF(num, den) ELSE RoundD(num, den)

\* a + b, a * b and a / b computed in the format f
Add(a, b, f) ==
  IF IsNaN(a) \/ IsNaN(b) THEN NaN
  ELSE IF ~IsFinite(a) /\ ~IsFinite(b) THEN (IF a = b THEN a ELSE NaN)
  ELSE IF ~IsFinite(a) THEN a
  ELSE IF ~IsFinite(b) THEN b
  ELSE RoundTo(f, a + b, 1)

Mul(a, b, f) ==
  IF IsNaN(a) \/ IsNaN(b) THEN NaN
  ELSE IF a = 0 \/ b = 0 THEN (IF IsFinite(a) /\ IsFinite(b) THEN 0 ELSE NaN)
  ELSE IF ~IsFinite(a) \/ ~IsFinite(b) \/
          Magnitude(a) > (4 * DoubleMax * One) \div Magnitude(b)
       THEN (IF Sign(a) * Sign(b) > 0 THEN PosInf ELSE NegInf)
  ELSE RoundTo(f, a * b, One)

Div(a, b, f) ==
  IF IsNaN(a) \/ IsNaN(b) THEN NaN
  ELSE IF ~IsFinite(a) /\ ~IsFinite(b) THEN NaN
  ELSE IF ~IsFinite(a) THEN (IF Sign(a) * (IF b < 0 THEN 0 - 1 ELSE 1) > 0
                              THEN PosInf ELSE NegInf)
  ELSE IF ~IsFinite(b) THEN 0
  ELSE IF b = 0 THEN (IF a = 0 THEN NaN ELSE IF a > 0 THEN PosInf ELSE NegInf)
  ELSE IF b < 0 THEN RoundTo(f, (0 - a) * One, 0 - b)
  ELSE RoundTo(f, a * One, b)

DAdd(a, b) == Add(a, b, "double")
DSub(a, b) == Add(a, Neg(b), "double")
DMul(a, b) == Mul(a, b, "double")
DDiv(a, b) == Div(a, b, "double")
FMul(a, b) == Mul(a, b, "float")

\* static_cast<score_t>(x) of a double x
ToScoreT(x) == IF IsFinite(x) THEN RoundF(x, 1) ELSE x

\* a >= b and a <= b; false when either is a NaN
Geq(a, b) == ~IsNaN(a) /\ ~IsNaN(b) /\ a >= b
Leq(a, b) == ~IsNaN(a) /\ ~IsNaN(b) /\ a <= b

(***************************************************************************)
(* Common::ApproximateHessianWithGaussian(y, t, g, eta, w = 1.0) lives in  *)
(* LightGBM/utils/common.h.  Its kernel is left open: the application is   *)
(* kept as a term, a deterministic function of its five arguments, and the *)
(* omitted weight argument is 1.0.                                         *)
(***************************************************************************)
ApproximateHessianWithGaussian(y, t, g, eta, w) == <<"gaussian", y, t, g, eta, w>>
DefaultWeight == One

\* a hessian entry that holds the score_t number v
Value(v) == <<"value", v>>
IsValue(h) == h[1] = "value"

(***************************************************************************)
(* The inputs: configurations, metadata and score vectors.                 *)
(***************************************************************************)
\* the largest num_data of a data set
MaxNumData == 3
\* the threads of the OpenMP team
NumThreads == 2
\* the caller's output vectors have one entry more than the largest data set
Cap == MaxNumData + 1

Classes == {"RegressionL2loss", "RegressionL1loss", "RegressionHuberLoss",
            "RegressionFairLoss"}

\* ObjectiveConfig: gaussian_eta, huber_delta and fair_c, each positive and of
\* moderate size: the defaults 1.0, the values 0.5, 2.0 and 1.5, and a fair_c
\* of 191/128, which is a double and no float
ObjectiveConfigs ==
  { [gaussian_eta |-> One, huber_delta |-> One, fair_c |-> One],
    [gaussian_eta |-> One \div 2, huber_delta |-> 2 * One,
     fair_c |-> One + One \div 2],
    [gaussian_eta |-> One, huber_delta |-> One,
     fair_c |-> One + One \div 2 - 1] }

\* labels 1, 2, 3 and weights 0.75, 1.5, 0.5, repeated along the data set
LabelPool == <<One, 2 * One, 3 * One>>
WeightPool == <<(3 * One) \div 4, One + One \div 2, One \div 2>>
\* scores 2, 0, 115/64, 1, 712 and 2040 (the largest double)
ScorePool == <<2 * One, 0, One + 102, One, 712 * One, DoubleMax>>

Cyclic(pool, k) == pool[(k % Len(pool)) + 1]

NullPtr == <<>>
Labels(n) == [i \in 1..n |-> Cyclic(LabelPool, i - 1)]
AllOnes(n) == [i \in 1..n |-> One]
PoolWeights(n) == [i \in 1..n |-> Cyclic(WeightPool, i - 1)]

\* Metadata: label() is never null, weights() is a vector or the null pointer
Metadatas(n) ==
  { [label |-> Labels(n), weights |-> w] :
      w \in {NullPtr, AllOnes(n), PoolWeights(n)} }

\* the score vectors handed to GetGradients: a run of the pool, or one of its
\* values repeated
ScoreVectors(n) ==
  { [i \in 1..n |-> Cyclic(ScorePool, a + (i - 1) * b)] :
      a \in 0..(Len(ScorePool) - 1), b \in 0..1 }

\* the value the output vectors hold before the first call
Junk == 0 - One

(***************************************************************************)
(* State.                                                                  *)
(***************************************************************************)
VARIABLES
  kind,       \* the class of the object
  eta_, delta_, c_,   \* the members set by the constructor (0: no such member)
  inited,     \* Init has been called
  num_data_, label_, weights_,   \* the members set by Init
  score,      \* the score argument of the latest GetGradients call
  gradients, hessians,   \* the caller's output vectors
  wroteG, wroteH,   \* per entry, the threads that stored to it in the latest call
  running,    \* a parallel loop is in progress
  pos,        \* per thread, its next iteration and statement
  name,       \* what the latest GetName call returned
  saved       \* one earlier call: its score, its outputs, and whether a call
              \* with another score has followed it

vars == <<kind, eta_, delta_, c_, inited, num_data_, label_, weights_, score,
          gradients, hessians, wroteG, wroteH, running, pos, name, saved>>

Threads == 0..(NumThreads - 1)
NoName == ""
NoCall == <<>>

(***************************************************************************)
(* The loop bodies.  lab, wts and sc are label_, weights_ and score; g is  *)
(* the gradients vector as the hessian statement finds it; i is the index. *)
(***************************************************************************)
\* L2Gradient with the subtraction the wrong way round
L2GradientSwapped(lab, wts, sc, i) ==
  IF wts = NullPtr
  THEN ToScoreT(DSub(lab[i], sc[i]))
  ELSE FMul(ToScoreT(DSub(lab[i], sc[i])), wts[i])

L2Gradient(lab, wts, sc, i) ==
  IF wts = NullPtr
  THEN ToScoreT(DSub(sc[i], lab[i]))
  ELSE FMul(ToScoreT(DSub(sc[i], lab[i])), wts[i])

L2Hessian(lab, wts, sc, g, i) ==
  IF wts = NullPtr THEN Value(One) ELSE Value(wts[i])

\* L1Gradient with diff > 0.0f for diff >= 0.0f
L1GradientStrict(lab, wts, sc, i) ==
  LET diff == DSub(sc[i], lab[i])
  IN IF wts = NullPtr
     THEN (IF Geq(diff, 0) /\ diff # 0 THEN One ELSE 0 - One)
     ELSE (IF Geq(diff, 0) /\ diff # 0 THEN wts[i] ELSE Neg(wts[i]))

L1Gradient(lab, wts, sc, i) ==
  LET diff == DSub(sc[i], lab[i])
  IN IF wts = NullPtr
     THEN (IF Geq(diff, 0) THEN One ELSE 0 - One)
     ELSE (IF Geq(diff, 0) THEN wts[i] ELSE Neg(wts[i]))

L1Hessian(lab, wts, sc, g, i) ==
  IF wts = NullPtr
  THEN ApproximateHessianWithGaussian(sc[i], lab[i], g[i], eta_, DefaultWeight)
  ELSE ApproximateHessianWithGaussian(sc[i], lab[i], g[i], eta_, wts[i])

\* std::abs(diff) <= delta_
HuberQuadratic(diff) == Leq(Fabs(diff), delta_)

HuberGradient(lab, wts, sc, i) ==
  LET diff == DSub(sc[i], lab[i])
  IN IF wts = NullPtr
     THEN IF HuberQuadratic(diff) THEN ToScoreT(diff)
          ELSE IF Geq(diff, 0) THEN ToScoreT(delta_)
          ELSE ToScoreT(Neg(delta_))
     ELSE IF HuberQuadratic(diff) THEN ToScoreT(DMul(diff, wts[i]))
          ELSE IF Geq(diff, 0) THEN ToScoreT(DMul(delta_, wts[i]))
          ELSE ToScoreT(DMul(Neg(delta_), wts[i]))

\* HuberHessian with 2.0f for 1.0f in the quadratic branch without weights
HuberHessianTwo(lab, wts, sc, g, i) ==
  LET diff == DSub(sc[i], lab[i])
  IN IF wts = NullPtr
     THEN IF HuberQuadratic(diff) THEN Value(2 * One)
          ELSE ApproximateHessianWithGaussian(sc[i], lab[i], g[i], eta_,
                                              DefaultWeight)
     ELSE IF HuberQuadratic(diff) THEN Value(wts[i])
          ELSE ApproximateHessianWithGaussian(sc[i], lab[i], g[i], eta_, wts[i])

HuberHessian(lab, wts, sc, g, i) ==
  LET diff == DSub(sc[i], lab[i])
  IN IF wts = NullPtr
     THEN IF HuberQuadratic(diff) THEN Value(One)
          ELSE ApproximateHessianWithGaussian(sc[i], lab[i], g[i], eta_,
                                              DefaultWeight)
     ELSE IF HuberQuadratic(diff) THEN Value(wts[i])
          ELSE ApproximateHessianWithGaussian(sc[i], lab[i], g[i], eta_, wts[i])

\* FairGradient with x for std::fabs(x)
FairGradientNoFabs(lab, wts, sc, i) ==
  LET x == DSub(sc[i], lab[i])
      q == DDiv(DMul(c_, x), DAdd(x, c_))
  IN IF wts = NullPtr THEN ToScoreT(q) ELSE ToScoreT(DMul(q, wts[i]))

FairGradient(lab, wts, sc, i) ==
  LET x == DSub(sc[i], lab[i])
      q == DDiv(DMul(c_, x), DAdd(Fabs(x), c_))
  IN IF wts = NullPtr THEN ToScoreT(q) ELSE ToScoreT(DMul(q, wts[i]))

\* FairHessian with x for std::fabs(x)
FairHessianNoFabs(lab, wts, sc, g, i) ==
  LET x == DSub(sc[i], lab[i])
      q == DDiv(DMul(c_, c_), DMul(DAdd(x, c_), DAdd(x, c_)))
  IN IF wts = NullPtr
     THEN Value(ToScoreT(q))
     ELSE Value(ToScoreT(DMul(q, wts[i])))

FairHessian(lab, wts, sc, g, i) ==
  LET x == DSub(sc[i], lab[i])
      q == DDiv(DMul(c_, c_), DMul(DAdd(Fabs(x), c_), DAdd(Fabs(x), c_)))
  IN IF wts = NullPtr
     THEN Value(ToScoreT(q))
     ELSE Value(ToScoreT(DMul(q, wts[i])))

\* the virtual calls
Gradient(k, lab, wts, sc, i) ==
  CASE k = "RegressionL2loss" -> L2Gradient(lab, wts, sc, i)
    [] k = "RegressionL1loss" -> L1Gradient(lab, wts, sc, i)
    [] k = "RegressionHuberLoss" -> HuberGradient(lab, wts, sc, i)
    [] k = "RegressionFairLoss" -> FairGradient(lab, wts, sc, i)

Hessian(k, lab, wts, sc, g, i) ==
  CASE k = "RegressionL2loss" -> L2Hessian(lab, wts, sc, g, i)
    [] k = "RegressionL1loss" -> L1Hessian(lab, wts, sc, g, i)
    [] k = "RegressionHuberLoss" -> HuberHessian(lab, wts, sc, g, i)
    [] k = "RegressionFairLoss" -> FairHessian(lab, wts, sc, g, i)

\* GetNameOf with the Huber class still returning the name it was copied from
GetNameOfCopied(k) ==
  CASE k = "RegressionL2loss" -> "regression"
    [] k = "RegressionL1loss" -> "regression_l1"
    [] k = "RegressionHuberLoss" -> "regression"
    [] k = "RegressionFairLoss" -> "fair"

GetNameOf(k) ==
  CASE k = "RegressionL2loss" -> "regression"
    [] k = "RegressionL1loss" -> "regression_l1"
    [] k = "RegressionHuberLoss" -> "huber"
    [] k = "RegressionFairLoss" -> "fair"

(***************************************************************************)
(* The loop  for (i = 0; i < num_data_; ++i)  under                        *)
(* #pragma omp parallel for schedule(static): the iterations (counted from *)
(* 1 here) are cut into one run per thread.                                *)
(***************************************************************************)
\* LoopRange with the last iteration missing
LoopRangeShort(n) == 1..(n - 1)

LoopRange(n) == 1..n

ChunkSize(n) == (n + NumThreads - 1) \div NumThreads

\* Chunk with each thread also running the chunks of the threads before it
ChunkOverlapping(t, n) == {i \in 1..n : (i - 1) \div ChunkSize(n) <= t}

Chunk(t, n) == {i \in LoopRange(n) : (i - 1) \div ChunkSize(n) = t}

\* the vectors once every iteration has run, from the vectors g0 and h0
\* GradientsAfter with += for = in the store to gradients[i]
GradientsAfterAccumulating(k, lab, wts, n, sc, g0) ==
  [j \in 1..Cap |->
     IF j \in 1..n THEN Add(g0[j], Gradient(k, lab, wts, sc, j), "float")
     ELSE g0[j]]

GradientsAfter(k, lab, wts, n, sc, g0) ==
  [j \in 1..Cap |->
     IF j \in LoopRange(n) THEN Gradient(k, lab, wts, sc, j) ELSE g0[j]]

HessiansAfter(k, lab, wts, n, sc, g1, h0) ==
  [j \in 1..Cap |->
     IF j \in LoopRange(n) THEN Hessian(k, lab, wts, sc, g1, j) ELSE h0[j]]

Writers(n) == [j \in 1..Cap |-> {t \in Threads : j \in Chunk(t, n)}]

Idle == [t \in Threads |-> [i |-> 0, at |-> "idle"]]

(***************************************************************************)
(* Construction.                                                           *)
(***************************************************************************)
Constructed(k, config) ==
  /\ kind = k
  /\ eta_ = IF k \in {"RegressionL1loss", "RegressionHuberLoss"}
            THEN config.gaussian_eta ELSE 0
  /\ delta_ = IF k = "RegressionHuberLoss" THEN config.huber_delta ELSE 0
  /\ c_ = IF k = "RegressionFairLoss" THEN config.fair_c ELSE 0

Init ==
  /\ \E k \in Classes, config \in ObjectiveConfigs : Constructed(k, config)
  /\ inited = FALSE
  /\ num_data_ = 0
  /\ label_ = NullPtr
  /\ weights_ = NullPtr
  /\ score = NoCall
  /\ gradients = [j \in 1..Cap |-> Junk]
  /\ hessians = [j \in 1..Cap |-> Value(Junk)]
  /\ wroteG = [j \in 1..Cap |-> {}]
  /\ wroteH = [j \in 1..Cap |-> {}]
  /\ running = FALSE
  /\ pos = Idle
  /\ name = NoName
  /\ saved = NoCall

(***************************************************************************)
(* The operations.                                                         *)
(***************************************************************************)
\* Init(metadata, num_data), called once
InitMetadata(metadata, n) ==
  /\ ~inited
  /\ inited' = TRUE
  /\ num_data_' = n
  /\ label_' = metadata.label
  /\ weights_' = metadata.weights
  /\ UNCHANGED <<kind, eta_, delta_, c_, score, gradients, hessians, wroteG,
                 wroteH, running, pos, name, saved>>

\* the saved call once a call with the score sc has followed it: its fourth
\* component tells whether a call with another score has been made since
Later(sv, sc) ==
  IF sv = NoCall THEN NoCall ELSE <<sv[1], sv[2], sv[3], sv[4] \/ sc # sv[1]>>

\* GetGradients(score, gradients, hessians), the whole call; one earlier call
\* is kept in saved
GetGradients(sc) ==
  /\ inited
  /\ ~running
  /\ score' = sc
  /\ gradients' = GradientsAfter(kind, label_, weights_, num_data_, sc, gradients)
  /\ hessians' = HessiansAfter(kind, label_, weights_, num_data_, sc,
                               gradients', hessians)
  /\ wroteG' = Writers(num_data_)
  /\ wroteH' = Writers(num_data_)
  /\ saved' \in {Later(saved, sc), <<sc, gradients', hessians', FALSE>>}
  /\ UNCHANGED <<kind, eta_, delta_, c_, inited, num_data_, label_, weights_,
                 running, pos, name>>

\* GetName()
GetName ==
  /\ name' = GetNameOf(kind)
  /\ UNCHANGED <<kind, eta_, delta_, c_, inited, num_data_, label_, weights_,
                 score, gradients, hessians, wroteG, wroteH, running, pos, saved>>

Next ==
  \/ \E n \in 1..MaxNumData : \E metadata \in Metadatas(n) :
       InitMetadata(metadata, n)
  \/ \E sc \in ScoreVectors(num_data_) : GetGradients(sc)
  \/ GetName

Spec == Init /\ [][Next]_vars

(***************************************************************************)
(* The same call, statement by statement: each thread of the team runs the *)
(* iterations of its chunk in order, first the store to gradients[i], then *)
(* the store to hessians[i], which reads gradients[i] back in the L1 and   *)
(* Huber losses.  The loop ends with the barrier of the parallel region.   *)
(***************************************************************************)
\* the first iteration of a thread's chunk
ChunkFirst(t, n) == CHOOSE i \in Chunk(t, n) : \A j \in Chunk(t, n) : i <= j

StartOf(t, n) ==
  IF Chunk(t, n) # {}
  THEN [i |-> ChunkFirst(t, n), at |-> "gradient"]
  ELSE [i |-> 0, at |-> "done"]

ParallelBegin(sc) ==
  /\ inited
  /\ ~running
  /\ running' = TRUE
  /\ score' = sc
  /\ pos' = [t \in Threads |-> StartOf(t, num_data_)]
  /\ wroteG' = [j \in 1..Cap |-> {}]
  /\ wroteH' = [j \in 1..Cap |-> {}]
  /\ UNCHANGED <<kind, eta_, delta_, c_, inited, num_data_, label_, weights_,
                 gradients, hessians, name, saved>>

ThreadGradient(t) ==
  /\ running
  /\ pos[t].at = "gradient"
  /\ LET i == pos[t].i
     IN /\ gradients' = [gradients EXCEPT
                           ![i] = Gradient(kind, label_, weights_, score, i)]
        /\ wroteG' = [wroteG EXCEPT ![i] = @ \cup {t}]
  /\ pos' = [pos EXCEPT ![t].at = "hessian"]
  /\ UNCHANGED <<kind, eta_, delta_, c_, inited, num_data_, label_, weights_,
                 score, hessians, wroteH, running, name, saved>>

ThreadHessian(t) ==
  /\ running
  /\ pos[t].at = "hessian"
  /\ LET i == pos[t].i
     IN /\ hessians' = [hessians EXCEPT
                          ![i] = Hessian(kind, label_, weights_, score,
                                         gradients, i)]
        /\ wroteH' = [wroteH EXCEPT ![i] = @ \cup {t}]
        /\ pos' = [pos EXCEPT
                     ![t] = IF i + 1 \in Chunk(t, num_data_)
                            THEN [i |-> i + 1, at |-> "gradient"]
                            ELSE [i |-> i, at |-> "done"]]
  /\ UNCHANGED <<kind, eta_, delta_, c_, inited, num_data_, label_, weights_,
                 score, gradients, wroteG, running, name, saved>>

ParallelEnd ==
  /\ running
  /\ \A t \in Threads : pos[t].at = "done"
  /\ running' = FALSE
  /\ pos' = Idle
  /\ UNCHANGED <<kind, eta_, delta_, c_, inited, num_data_, label_, weights_,
                 score, gradients, hessians, wroteG, wroteH, name, saved>>

\* the score vectors of the statement-level runs: the runs of the pool
ScoreRuns(n) ==
  { [i \in 1..n |-> Cyclic(ScorePool, a + i - 1)] :
      a \in 0..(Len(ScorePool) - 1) }

NextPar ==
  \/ \E n \in 1..MaxNumData : \E metadata \in Metadatas(n) :
       InitMetadata(metadata, n)
  \/ \E sc \in ScoreRuns(num_data_) : ParallelBegin(sc)
  \/ \E t \in Threads : ThreadGradient(t)
  \/ \E t \in Threads : ThreadHessian(t)
  \/ ParallelEnd

SpecPar == Init /\ [][NextPar]_vars

(***************************************************************************)
(* Properties.                                                             *)
(***************************************************************************)
\* a GetGradients call has returned
CallDone == score # NoCall /\ ~running
Weighted == weights_ # NullPtr
Data == 1..num_data_
\* score[i] - label[i] as a real number, in double steps
Residual(i) == score[i] - label_[i]
\* weight[i], 1 when the weights are absent
WeightOrOne(i) == IF Weighted THEN weights_[i] ELSE One
Is(k) == kind = k /\ CallDone

\* C1 as stated: after a Squared-Error call gradients[i] is the real number
\* score[i] - label[i], times weight[i] when weights are present, and
\* hessians[i] is 1, or weight[i]
C1_ExactResidual ==
  Is("RegressionL2loss") =>
    \A i \in Data :
      /\ gradients[i] * One = Residual(i) * WeightOrOne(i)
      /\ hessians[i] = Value(WeightOrOne(i))

\* C1 amended: gradients[i] is the double difference score[i] - label[i]
\* rounded to score_t, and with weights that score_t value times weight[i],
\* rounded to score_t again; hessians[i] is 1, or weight[i]; labels 1, 2, 3
\* and scores 1, 1, 1 give the gradients 0, -1, -2 and the hessians 1, 1, 1
C1_RoundedResidual ==
  Is("RegressionL2loss") =>
    /\ \A i \in Data :
         LET d == ToScoreT(RoundD(Residual(i), 1))
         IN /\ gradients[i] = IF Weighted THEN FMul(d, weights_[i]) ELSE d
            /\ hessians[i] = Value(WeightOrOne(i))
    /\ (~Weighted /\ label_ = <<One, 2 * One, 3 * One>>
          /\ score = <<One, One, One>>) =>
         /\ SubSeq(gradients, 1, 3) = <<0, 0 - One, 0 - 2 * One>>
         /\ SubSeq(hessians, 1, 3) = <<Value(One), Value(One), Value(One)>>

\* a weighted Squared-Error call has returned a gradient that is not the
\* real product
C1_Witness ==
  /\ Is("RegressionL2loss")
  /\ Weighted
  /\ \E i \in Data : /\ IsFinite(gradients[i])
                     /\ gradients[i] * One # Residual(i) * weights_[i]

\* C2 as stated: after a Huber call, an index with |d| <= delta holds the
\* Squared-Error gradient and hessian of the same score, label and weight,
\* and an index with |d| > delta holds a gradient of magnitude delta, times
\* weight[i] when weights are present, with the sign of d
C2_HuberMatchesSquaredError ==
  Is("RegressionHuberLoss") =>
    \A i \in Data :
      IF Magnitude(Residual(i)) <= delta_
      THEN /\ gradients[i] = L2Gradient(label_, weights_, score, i)
           /\ hessians[i] = L2Hessian(label_, weights_, score, gradients, i)
      ELSE gradients[i] * One = Sign(Residual(i)) * delta_ * WeightOrOne(i)

\* C3: after an Absolute-Error call gradients[i] is positive when
\* score[i] - label[i] >= 0 and negative otherwise, and its magnitude is
\* weight[i], or 1 without weights
C3_SignAndMagnitude ==
  Is("RegressionL1loss") =>
    \A i \in Data :
      /\ Residual(i) >= 0 => gradients[i] > 0
      /\ Residual(i) < 0 => gradients[i] < 0
      /\ Magnitude(gradients[i]) = WeightOrOne(i)

\* a weighted Absolute-Error call has returned with a zero residual and a
\* negative residual among its indices
C3_Witness ==
  /\ Is("RegressionL1loss")
  /\ Weighted
  /\ \E i, j \in Data : Residual(i) = 0 /\ Residual(j) < 0

\* the double product c * x of the Fair loss at index i is finite
FairInRange(i) == IsFinite(DMul(c_, DSub(score[i], label_[i])))

\* C4 as stated: after a Fair call |gradients[i]| < c * weight[i], or < c
\* without weights, for every index
C4_StrictBound ==
  Is("RegressionFairLoss") =>
    \A i \in Data : Fabs(gradients[i]) * One < c_ * WeightOrOne(i)

\* C4 amended: wherever the double product c * x is finite, |gradients[i]|
\* is at most c * weight[i] rounded up to score_t, without weights c rounded
\* up to score_t, which is c itself when c is a float
C4_RoundedBound ==
  Is("RegressionFairLoss") =>
    \A i \in Data :
      FairInRange(i) =>
        /\ Leq(Fabs(gradients[i]),
               RoundRatUp(c_ * WeightOrOne(i), One, FloatDigits, FloatQuantum,
                          FloatMax))
        /\ (~Weighted /\ IsFloat(c_)) => Leq(Fabs(gradients[i]), c_)

\* a weighted Fair call has returned a gradient above c * weight[i]
C4_Witness ==
  /\ Is("RegressionFairLoss")
  /\ Weighted
  /\ \E i \in Data : /\ FairInRange(i)
                     /\ Fabs(gradients[i]) * One > c_ * weights_[i]

\* C5 as stated: after a Fair call hessians[i] is weight[i], or 1, where the
\* residual is 0, with gradient 0 and hessian 1 for c = 1 without weights;
\* and of two indices of equal weight the one with the larger |x| holds the
\* strictly smaller hessian
C5_StrictlyDecreasing ==
  Is("RegressionFairLoss") =>
    /\ \A i \in Data :
         Residual(i) = 0 =>
           /\ hessians[i] = Value(WeightOrOne(i))
           /\ (c_ = One /\ ~Weighted) =>
                gradients[i] = 0 /\ hessians[i] = Value(One)
    /\ \A i, j \in Data :
         (WeightOrOne(i) = WeightOrOne(j)
            /\ Magnitude(Residual(i)) > Magnitude(Residual(j))) =>
           hessians[i][2] < hessians[j][2]

\* C5 amended: the same, with the larger |x| holding a hessian that is
\* smaller or equal
C5_NonIncreasing ==
  Is("RegressionFairLoss") =>
    /\ \A i \in Data :
         /\ IsValue(hessians[i])
         /\ Residual(i) = 0 =>
              /\ hessians[i] = Value(WeightOrOne(i))
              /\ (c_ = One /\ ~Weighted) =>
                   gradients[i] = 0 /\ hessians[i] = Value(One)
    /\ \A i, j \in Data :
         (WeightOrOne(i) = WeightOrOne(j)
            /\ Magnitude(Residual(i)) > Magnitude(Residual(j))) =>
           hessians[i][2] <= hessians[j][2]

\* a Fair call has returned with a zero residual, a larger residual with a
\* smaller hessian, and two residuals of different size with one hessian
C5_Witness ==
  /\ Is("RegressionFairLoss")
  /\ \E i, j, k \in Data :
       /\ Residual(i) = 0
       /\ hessians[j][2] < hessians[i][2]
       /\ WeightOrOne(j) = WeightOrOne(k)
       /\ Magnitude(Residual(j)) # Magnitude(Residual(k))
       /\ hessians[j] = hessians[k]

\* C6: after a call of any class, every entry in [0, num_data) of both
\* vectors has been stored to and holds the value of this call, and every
\* entry beyond has not been stored to and holds what it held before
C6_AllAndOnlyTheRange ==
  CallDone =>
    \A j \in 1..Cap :
      IF j <= num_data_
      THEN /\ wroteG[j] # {} /\ wroteH[j] # {}
           /\ gradients[j] = Gradient(kind, label_, weights_, score, j)
           /\ hessians[j] = Hessian(kind, label_, weights_, score, gradients, j)
      ELSE /\ wroteG[j] = {} /\ wroteH[j] = {}
           /\ gradients[j] = Junk /\ hessians[j] = Value(Junk)

\* a weighted Huber call has returned with an index in the quadratic branch
\* and an index in the linear branch
C6_Witness ==
  /\ Is("RegressionHuberLoss")
  /\ Weighted
  /\ \E i, j \in Data : IsValue(hessians[i]) /\ ~IsValue(hessians[j])

\* C7: a call with the score of the saved earlier call leaves the outputs of
\* the saved call, whatever calls were made in between
C7_Idempotent ==
  (CallDone /\ saved # NoCall /\ saved[1] = score) =>
    gradients = saved[2] /\ hessians = saved[3]

\* an Absolute-Error call has repeated the score of the saved call after a
\* call with another score
C7_Witness ==
  /\ Is("RegressionL1loss")
  /\ saved # NoCall
  /\ saved[1] = score
  /\ saved[4]

\* C8: no entry of gradients or hessians is stored to by two threads, an
\* entry is stored to only by the thread whose chunk holds it, an entry that
\* has been stored to holds the value of the sequential loop wherever the
\* other threads are, and when the loop has ended the vectors are those of
\* the sequential loop
C8_InterleavingsAgree ==
  /\ \A j \in 1..Cap :
       /\ Cardinality(wroteG[j]) <= 1 /\ Cardinality(wroteH[j]) <= 1
       /\ \A t \in wroteG[j] \cup wroteH[j] : j \in Chunk(t, num_data_)
       /\ wroteG[j] # {} =>
            gradients[j] = Gradient(kind, label_, weights_, score, j)
       /\ wroteH[j] # {} =>
            hessians[j] = Hessian(kind, label_, weights_, score, gradients, j)
  /\ CallDone =>
       /\ gradients = GradientsAfter(kind, label_, weights_, num_data_, score,
                                     [j \in 1..Cap |-> Junk])
       /\ hessians = HessiansAfter(kind, label_, weights_, num_data_, score,
                                   gradients, [j \in 1..Cap |-> Value(Junk)])
       /\ \A j \in Data : wroteG[j] # {} /\ wroteH[j] # {}

\* a parallel Absolute-Error loop has ended in which two threads have stored
C8_Witness ==
  /\ Is("RegressionL1loss")
  /\ \E i, j \in Data : wroteH[i] # {} /\ wroteH[j] # {} /\ wroteH[i] # wroteH[j]

\* C9: the outputs of a call with a weight vector of ones are those of the
\* call without weights, and the other way round
C9_AbsentIsAllOnes ==
  CallDone =>
    /\ weights_ = AllOnes(num_data_) =>
         /\ gradients = GradientsAfter(kind, label_, NullPtr, num_data_, score,
                                       gradients)
         /\ hessians = HessiansAfter(kind, label_, NullPtr, num_data_, score,
                                     gradients, hessians)
    /\ weights_ = NullPtr =>
         /\ gradients = GradientsAfter(kind, label_, AllOnes(num_data_),
                                       num_data_, score, gradients)
         /\ hessians = HessiansAfter(kind, label_, AllOnes(num_data_),
                                     num_data_, score, gradients, hessians)

\* a Huber call with a weight vector of ones has returned with an index in
\* each branch
C9_Witness ==
  /\ Is("RegressionHuberLoss")
  /\ weights_ = AllOnes(num_data_)
  /\ \E i, j \in Data : IsValue(hessians[i]) /\ ~IsValue(hessians[j])

\* C10: GetName returns "regression", "regression_l1", "huber" and "fair" for
\* the four classes, four different names, whenever it is called, and the
\* class of an object never changes
C10_NameFixed ==
  /\ [](name # NoName =>
          /\ kind = "RegressionL2loss" => name = "regression"
          /\ kind = "RegressionL1loss" => name = "regression_l1"
          /\ kind = "RegressionHuberLoss" => name = "huber"
          /\ kind = "RegressionFairLoss" => name = "fair")
  /\ [](Cardinality({GetNameOf(k) : k \in Classes}) = Cardinality(Classes))
  /\ [][kind' = kind]_vars

\* GetName has returned "huber" after a GetGradients call
C10_Witness == Is("RegressionHuberLoss") /\ name = "huber"

=============================================================================
